---- MODULE Spec2Model ----
(***************************************************************************)
(* Model of the upload server in src/main.py: the streaming transfer       *)
(* stream_telegram_to_s3 (messaging platform -> multipart upload) and the  *)
(* client-submitted-chunk endpoint handle_multipart_upload, together with  *)
(* the two external services they drive: the object store (S3 multipart    *)
(* protocol) and the state store (Redis keys and lists).                   *)
(*                                                                         *)
(* Byte counts are measured in units of UnitBytes bytes, so that the       *)
(* read-chunk size (1 MiB) is 2 units and the minimum part size (5 MiB) is *)
(* 10 units: a read may then deliver less than a full chunk, and a flushed *)
(* part may exceed the minimum part size.  The code never inspects the     *)
(* bytes it moves, so the source stream carries at each position the       *)
(* number of that position: any loss, repetition or reordering of data     *)
(* shows in the stored parts.                                              *)
(***************************************************************************)
EXTENDS Integers, Sequences, FiniteSets, TLC

\* ---------------------------------------------------------------- bounds
MaxStreamLen == 24
MaxTime == 1
MaxFaults == 1
MaxRequests == 3
MaxInFlight == 2
MaxChunkNumber == 2
MaxTotalChunks == 3
MaxUploadRequests == 2
MaxUndelivered == 1

\* ------------------------------------------------------------- constants
UnitBytes == 512 * 1024
CHUNK_SIZE == (1024 * 1024) \div UnitBytes
MIN_PART_SIZE == (5 * 1024 * 1024) \div UnitBytes
ScenarioLen == (200 * 1024 * 1024) \div UnitBytes

Users == {"u1"}
Files == {"a.mp4"}
NoUpload == 0
NoOwner == 0

\* The TTL of the upload:* and parts:* keys, and of the job:* keys, in seconds.
SESSION_TTL == 7200
JOB_TTL == 3600

\* The size limits of upload_telegram_file, and an absent file_size.
MAX_FILE_SIZE == 2 * 1024 * ((1024 * 1024) \div UnitBytes)
FIFTY_MB == (50 * 1024 * 1024) \div UnitBytes
NoSize == 0
FileIds == {"f1", "f2"}
FileSizes == {NoSize, MIN_PART_SIZE, FIFTY_MB, FIFTY_MB + 1, MAX_FILE_SIZE,
              MAX_FILE_SIZE + 1}
NoJob == <<"none">>
NoKey == [prefix |-> "none", user |-> "none", timestamp |-> 0, file_hash |-> <<"none", 0>>, file_name |-> "none"]
NoUrl == [endpoint |-> "none", bucket |-> "none", key |-> NoKey]

VARIABLES
  now,            \* wall clock, in seconds (datetime.now() at second resolution)
  faults,         \* number of failures the external services have produced
  s3,             \* object store: sequence of multipart uploads, upload_id = index
  redis_upload,   \* state store: keys upload:{user_id}:{file name} -> upload_id
  redis_parts,    \* state store: lists parts:{upload_id} -> part_info entries
  s_pc,           \* stream_telegram_to_s3: position in the function
  s_key,          \* s3_key
  s_upload_id,    \* upload_id
  s_parts,        \* parts
  s_part_number,  \* part_number
  s_buffer,       \* buffer
  s_source,       \* the bytes the source platform serves for the file
  s_pos,          \* number of source units already delivered by aiter_bytes
  s_exact,        \* TRUE when every read but the last delivers a full chunk
  s_result,       \* the returned URL
  reqs,           \* handle_multipart_upload: the requests made, in arrival order
  concurrent,     \* TRUE once a request arrived while another was in flight
  upload_expiry,  \* state store: expiry time of the upload:* keys that have a TTL
  parts_expiry,   \* state store: expiry time of the parts:* lists that have a TTL
  redis_job,      \* state store: keys job:{job_id} -> JobRecord
  ureqs,          \* upload_telegram_file: the requests made, in arrival order
  s_owner         \* the upload request whose transfer stream_telegram_to_s3 runs

vars == <<now, faults, s3, redis_upload, redis_parts, s_pc, s_key, s_upload_id,
          s_parts, s_part_number, s_buffer, s_source, s_pos, s_exact, s_result,
          reqs, concurrent, upload_expiry, parts_expiry, redis_job, ureqs,
          s_owner>>

ext_vars == <<s3, redis_upload, redis_parts>>
stream_vars == <<s_pc, s_key, s_upload_id, s_parts, s_part_number, s_buffer,
                 s_source, s_pos, s_exact, s_result>>
chunk_vars == <<reqs, concurrent>>
ttl_vars == <<upload_expiry, parts_expiry>>
upload_vars == <<redis_job, ureqs, s_owner>>

Min(a, b) == IF a <= b THEN a ELSE b

\* ------------------------------------------------------------ utilities
generate_s3_key(user_id, file_name, prefix) ==
  [prefix |-> prefix, user |-> user_id, timestamp |-> now,
   file_hash |-> <<user_id, now>>, file_name |-> file_name]

FinalUrl(key) == [endpoint |-> "S3_ENDPOINT", bucket |-> "S3_BUCKET", key |-> key]

\* ---------------------------------------------------------- object store
\* ETag of a part: the store's digest of the body.
ETag(body) == <<"md5", body>>

\* One entry of an upload's call log: the call, its arguments and whether the
\* store accepted it.
Call(op, pn, body, parts, ok) ==
  [op |-> op, PartNumber |-> pn, Body |-> body, Parts |-> parts, ok |-> ok]

NewUpload(key) ==
  [Key |-> key, State |-> "open", Parts |-> <<>>, Calls |-> <<>>]

\* The store knows no open upload with this id under this key.
NoSuchUpload(id, key) ==
  \/ id \notin 1..Len(s3)
  \/ s3[id].State # "open"
  \/ s3[id].Key # key

Logged(id, call) ==
  IF id \in 1..Len(s3)
    THEN [s3 EXCEPT ![id].Calls = Append(@, call)]
    ELSE s3

\* create_multipart_upload: a new upload with a fresh UploadId.
S3Create(key) == Append(s3, NewUpload(key))

\* upload_part, accepted: the part is stored under its number (a repeated
\* number overwrites) and the call is logged.
S3PutPart(id, pn, body) ==
  [s3 EXCEPT ![id].Parts = (pn :> body) @@ @,
             ![id].Calls = Append(@, Call("upload_part", pn, body, <<>>, TRUE))]

\* upload_part, rejected: only the call is logged.
S3RejectPart(id, pn, body) ==
  Logged(id, Call("upload_part", pn, body, <<>>, FALSE))

Ascending(parts) ==
  \A i \in 1..(Len(parts) - 1) : parts[i].PartNumber < parts[i + 1].PartNumber

PartsKnown(id, parts) ==
  \A i \in 1..Len(parts) :
    /\ parts[i].PartNumber \in DOMAIN s3[id].Parts
    /\ parts[i].ETag = ETag(s3[id].Parts[parts[i].PartNumber])

PartsBigEnough(id, parts) ==
  \A i \in 1..(Len(parts) - 1) :
    Len(s3[id].Parts[parts[i].PartNumber]) >= MIN_PART_SIZE

\* complete_multipart_upload is accepted for an open upload of that key and a
\* non-empty, ascending list of stored parts whose non-final parts reach the
\* minimum part size.
CompleteAccepted(id, key, parts) ==
  /\ ~NoSuchUpload(id, key)
  /\ Len(parts) >= 1
  /\ Ascending(parts)
  /\ PartsKnown(id, parts)
  /\ PartsBigEnough(id, parts)

S3Complete(id, parts) ==
  [s3 EXCEPT ![id].State = "completed",
             ![id].Calls = Append(@, Call("complete", 0, <<>>, parts, TRUE))]

S3RejectComplete(id, parts) ==
  Logged(id, Call("complete", 0, <<>>, parts, FALSE))

\* An external call either goes through or fails; failures are counted.
Outcome(ok) ==
  IF ok THEN faults' = faults
        ELSE /\ faults < MaxFaults
             /\ faults' = faults + 1

\* ------------------------------------------------- stream_telegram_to_s3
Source(len) == [i \in 1..len |-> i]

\* The lengths the source stream may have.  A transfer started for an upload
\* request draws from the two lengths that differ in the outcome: the empty
\* stream and one that fills a part and leaves a remainder.
StreamLengths ==
  IF s_owner = NoOwner THEN (0..MaxStreamLen) \cup {ScenarioLen}
                       ELSE {0, MIN_PART_SIZE + 1}

\* Whether the reads may be shorter than the read-chunk size.
ExactChoices(len) ==
  IF len > MaxStreamLen \/ s_owner # NoOwner THEN {TRUE} ELSE BOOLEAN

ReadSizes(remaining, exact) ==
  IF exact THEN {Min(CHUNK_SIZE, remaining)}
           ELSE 1..Min(CHUNK_SIZE, remaining)

\* A flush threshold that takes the read-chunk size for the minimum part size.
ShouldFlushAtChunkSize(buffer) == Len(buffer) >= CHUNK_SIZE

ShouldFlush(buffer) == Len(buffer) >= MIN_PART_SIZE

\* A part counter that skips a number.
SkipPartNumber(part_number) == part_number + 2

NextPartNumber(part_number) == part_number + 1

PartInfo(part_number, body) == [PartNumber |-> part_number, ETag |-> ETag(body)]

\* A flush that leaves the uploaded bytes in the buffer.
BufferKept == s_buffer

BufferAfterFlush == <<>>

Raise == /\ s_pc' = "raised"

\* The call of stream_telegram_to_s3(request).
StreamCall ==
  /\ s_pc = "idle"
  /\ s_pc' = "get_file"
  /\ UNCHANGED <<now, faults, ext_vars, s_key, s_upload_id, s_parts,
                 s_part_number, s_buffer, s_source, s_pos, s_exact, s_result,
                 chunk_vars, ttl_vars, upload_vars>>

\* getFile and raise_for_status, then generate_s3_key.
GetFile ==
  /\ s_pc = "get_file"
  /\ \E ok \in BOOLEAN :
       /\ Outcome(ok)
       /\ IF ok THEN /\ \E u \in Users, f \in Files :
                          s_key' = generate_s3_key(u, f, "uploads")
                     /\ s_pc' = "create"
                ELSE /\ Raise
                     /\ UNCHANGED s_key
  /\ UNCHANGED <<now, ext_vars, s_upload_id, s_parts, s_part_number, s_buffer,
                 s_source, s_pos, s_exact, s_result, chunk_vars, ttl_vars, upload_vars>>

\* create_multipart_upload; parts = [], part_number = 1.
CreateUpload ==
  /\ s_pc = "create"
  /\ \E ok \in BOOLEAN :
       /\ Outcome(ok)
       /\ IF ok THEN /\ s3' = S3Create(s_key)
                     /\ s_upload_id' = Len(s3) + 1
                     /\ s_parts' = <<>>
                     /\ s_part_number' = 1
                     /\ s_pc' = "open"
                ELSE /\ Raise
                     /\ UNCHANGED <<s3, s_upload_id, s_parts, s_part_number>>
  /\ UNCHANGED <<now, redis_upload, redis_parts, s_key, s_buffer, s_source,
                 s_pos, s_exact, s_result, chunk_vars, ttl_vars, upload_vars>>

\* client.stream('GET', file_url) and raise_for_status; buffer = bytearray().
OpenStream ==
  /\ s_pc = "open"
  /\ \E ok \in BOOLEAN :
       /\ Outcome(ok)
       /\ IF ok THEN /\ \E len \in StreamLengths :
                          /\ s_source' = Source(len)
                          /\ s_exact' \in ExactChoices(len)
                     /\ s_pos' = 0
                     /\ s_buffer' = <<>>
                     /\ s_pc' = "loop"
                ELSE /\ Raise
                     /\ UNCHANGED <<s_source, s_exact, s_pos, s_buffer>>
  /\ UNCHANGED <<now, ext_vars, s_key, s_upload_id, s_parts, s_part_number,
                 s_result, chunk_vars, ttl_vars, upload_vars>>

\* One iteration of aiter_bytes: the next chunk is appended to the buffer, or
\* the read fails (error, timeout).
ReadChunk ==
  /\ s_pc = "loop"
  /\ s_pos < Len(s_source)
  /\ \E ok \in BOOLEAN :
       /\ Outcome(ok)
       /\ IF ok THEN \E n \in ReadSizes(Len(s_source) - s_pos, s_exact) :
                       /\ s_buffer' = s_buffer \o SubSeq(s_source, s_pos + 1, s_pos + n)
                       /\ s_pos' = s_pos + n
                       /\ s_pc' = "check"
                ELSE /\ Raise
                     /\ UNCHANGED <<s_buffer, s_pos>>
  /\ UNCHANGED <<now, ext_vars, s_key, s_upload_id, s_parts, s_part_number,
                 s_source, s_exact, s_result, chunk_vars, ttl_vars, upload_vars>>

\* upload_part of the buffer as part s_part_number, then the bookkeeping.
UploadBuffer(next_pc, ok) ==
  IF ok /\ ~NoSuchUpload(s_upload_id, s_key)
    THEN /\ s3' = S3PutPart(s_upload_id, s_part_number, s_buffer)
         /\ s_parts' = Append(s_parts, PartInfo(s_part_number, s_buffer))
         /\ s_pc' = next_pc
    ELSE /\ s3' = S3RejectPart(s_upload_id, s_part_number, s_buffer)
         /\ Raise
         /\ UNCHANGED s_parts

\* if len(buffer) >= 5 MiB: upload the buffer as a part and start a new one.
CheckFlush ==
  /\ s_pc = "check"
  /\ IF ShouldFlush(s_buffer)
       THEN \E ok \in BOOLEAN :
              /\ Outcome(ok)
              /\ UploadBuffer("loop", ok)
              /\ IF s_pc' = "loop"
                   THEN /\ s_part_number' = NextPartNumber(s_part_number)
                        /\ s_buffer' = BufferAfterFlush
                   ELSE UNCHANGED <<s_part_number, s_buffer>>
       ELSE /\ s_pc' = "loop"
            /\ UNCHANGED <<faults, s3, s_parts, s_part_number, s_buffer>>
  /\ UNCHANGED <<now, redis_upload, redis_parts, s_key, s_upload_id, s_source,
                 s_pos, s_exact, s_result, chunk_vars, ttl_vars, upload_vars>>

\* End of stream: if buffer: upload the remaining data.
FinalFlush ==
  /\ s_pc = "loop"
  /\ s_pos = Len(s_source)
  /\ IF s_buffer # <<>>
       THEN \E ok \in BOOLEAN :
              /\ Outcome(ok)
              /\ UploadBuffer("complete", ok)
       ELSE /\ s_pc' = "complete"
            /\ UNCHANGED <<faults, s3, s_parts>>
  /\ UNCHANGED <<now, redis_upload, redis_parts, s_key, s_upload_id,
                 s_part_number, s_buffer, s_source, s_pos, s_exact, s_result,
                 chunk_vars, ttl_vars, upload_vars>>

\* complete_multipart_upload, then return the URL.
CompleteUpload ==
  /\ s_pc = "complete"
  /\ \E ok \in BOOLEAN :
       /\ Outcome(ok)
       /\ IF ok /\ CompleteAccepted(s_upload_id, s_key, s_parts)
            THEN /\ s3' = S3Complete(s_upload_id, s_parts)
                 /\ s_result' = FinalUrl(s_key)
                 /\ s_pc' = "returned"
            ELSE /\ s3' = S3RejectComplete(s_upload_id, s_parts)
                 /\ Raise
                 /\ UNCHANGED s_result
  /\ UNCHANGED <<now, redis_upload, redis_parts, s_key, s_upload_id, s_parts,
                 s_part_number, s_buffer, s_source, s_pos, s_exact, chunk_vars, ttl_vars, upload_vars>>

\* The wall clock passes to the next second.
Tick ==
  /\ now < MaxTime
  /\ now' = now + 1
  /\ UNCHANGED <<faults, ext_vars, stream_vars, chunk_vars, ttl_vars, upload_vars>>

Init ==
  /\ now = 0
  /\ faults = 0
  /\ s3 = <<>>
  /\ redis_upload = <<>>
  /\ redis_parts = <<>>
  /\ s_pc = "idle"
  /\ s_key = NoKey
  /\ s_upload_id = NoUpload
  /\ s_parts = <<>>
  /\ s_part_number = 1
  /\ s_buffer = <<>>
  /\ s_source = <<>>
  /\ s_pos = 0
  /\ s_exact = FALSE
  /\ s_result = NoUrl
  /\ reqs = <<>>
  /\ concurrent = FALSE
  /\ upload_expiry = <<>>
  /\ parts_expiry = <<>>
  /\ redis_job = <<>>
  /\ ureqs = <<>>
  /\ s_owner = NoOwner

Next ==
  \/ StreamCall
  \/ GetFile
  \/ CreateUpload
  \/ OpenStream
  \/ ReadChunk
  \/ CheckFlush
  \/ FinalFlush
  \/ CompleteUpload
  \/ Tick

Spec == Init /\ [][Next]_vars

\* ---------------------------------------------- handle_multipart_upload
NoETag == <<"none">>

\* The chunk the client cuts out of its file for chunk_number.
ChunkBody(chunk_number) == [i \in 1..MIN_PART_SIZE |-> chunk_number]

\* The state-store key upload:{user_id}:{file.filename}.
UploadKey(r) == <<r.user_id, r.file_name>>

\* A key whose TTL has run out is gone for every later command.
Expired(expiry, key) == key \in DOMAIN expiry /\ expiry[key] <= now

\* The expiry time setex and expire give a key: the TTL counts from the call.
ExpiryFrom(ttl) == now + ttl

RedisGet(key) ==
  IF key \in DOMAIN redis_upload /\ ~Expired(upload_expiry, key)
    THEN redis_upload[key] ELSE NoUpload

RedisLRange(id) ==
  IF id \in DOMAIN redis_parts /\ ~Expired(parts_expiry, id)
    THEN redis_parts[id] ELSE <<>>

RedisRPush(id, item) == (id :> Append(RedisLRange(id), item)) @@ redis_parts

RedisDelete(store, key) == [k \in (DOMAIN store) \ {key} |-> store[k]]

\* sorted(parts, key=lambda x: x['PartNumber']): a stable insertion sort.
RECURSIVE InsertPart(_, _)
InsertPart(sorted, p) ==
  IF sorted = <<>> THEN <<p>>
  ELSE IF sorted[Len(sorted)].PartNumber <= p.PartNumber
         THEN Append(sorted, p)
         ELSE Append(InsertPart(SubSeq(sorted, 1, Len(sorted) - 1), p),
                     sorted[Len(sorted)])

RECURSIVE SortedParts(_)
SortedParts(parts) ==
  IF parts = <<>> THEN <<>>
  ELSE InsertPart(SortedParts(SubSeq(parts, 1, Len(parts) - 1)), parts[Len(parts)])

\* The part number a chunk is uploaded and recorded under.
ChunkPartNumber(chunk_number) == chunk_number + 1

IsLastChunk(chunk_number, total_chunks) == chunk_number = total_chunks - 1

InFlight == {i \in DOMAIN reqs : reqs[i].pc # "done"}

Finish(r, result) == [r EXCEPT !.pc = "done", !.result = result]

\* A request arrives: s3_key = generate_s3_key(user_id, file.filename,
\* prefix="chunks"), then the branch on chunk_number == 0.
Arrive ==
  /\ Len(reqs) < MaxRequests
  /\ Cardinality(InFlight) < MaxInFlight
  /\ \E u \in Users, f \in Files, c \in 0..MaxChunkNumber, t \in 1..MaxTotalChunks :
       reqs' = Append(reqs,
                 [user_id |-> u, file_name |-> f, chunk_number |-> c,
                  total_chunks |-> t,
                  s3_key |-> generate_s3_key(u, f, "chunks"),
                  pc |-> IF c = 0 THEN "create" ELSE "get",
                  upload_id |-> NoUpload, etag |-> NoETag, parts |-> <<>>,
                  result |-> "pending"])
  /\ concurrent' = (concurrent \/ InFlight # {})
  /\ UNCHANGED <<now, faults, ext_vars, stream_vars, ttl_vars, upload_vars>>

\* chunk_number == 0: create_multipart_upload.
HCreate(i) ==
  /\ reqs[i].pc = "create"
  /\ \E ok \in BOOLEAN :
       /\ Outcome(ok)
       /\ IF ok THEN /\ s3' = S3Create(reqs[i].s3_key)
                     /\ reqs' = [reqs EXCEPT ![i].upload_id = Len(s3) + 1,
                                             ![i].pc = "setex"]
                ELSE /\ reqs' = [reqs EXCEPT ![i] = Finish(@, "error_500")]
                     /\ UNCHANGED s3
  /\ UNCHANGED <<now, redis_upload, redis_parts, stream_vars, ttl_vars, upload_vars, concurrent>>

\* setex upload:{user_id}:{file.filename} = upload_id.
HSetex(i) ==
  /\ reqs[i].pc = "setex"
  /\ redis_upload' = (UploadKey(reqs[i]) :> reqs[i].upload_id) @@ redis_upload
  /\ upload_expiry' = (UploadKey(reqs[i]) :> ExpiryFrom(SESSION_TTL)) @@ upload_expiry
  /\ reqs' = [reqs EXCEPT ![i].pc = "upload_part"]
  /\ UNCHANGED <<now, faults, s3, redis_parts, parts_expiry, stream_vars,
                 upload_vars, concurrent>>

\* chunk_number > 0: get the upload id; 400 when the key is absent.
HGet(i) ==
  /\ reqs[i].pc = "get"
  /\ IF RedisGet(UploadKey(reqs[i])) # NoUpload
       THEN reqs' = [reqs EXCEPT ![i].upload_id = RedisGet(UploadKey(reqs[i])),
                                 ![i].pc = "upload_part"]
       ELSE reqs' = [reqs EXCEPT ![i] = Finish(@, "error_400")]
  /\ UNCHANGED <<now, faults, ext_vars, stream_vars, ttl_vars, upload_vars, concurrent>>

\* file.read() and upload_part with PartNumber = chunk_number + 1.
HUploadPart(i) ==
  /\ reqs[i].pc = "upload_part"
  /\ LET r == reqs[i]
         pn == ChunkPartNumber(r.chunk_number)
         body == ChunkBody(r.chunk_number)
     IN \E ok \in BOOLEAN :
          /\ Outcome(ok)
          /\ IF ok /\ ~NoSuchUpload(r.upload_id, r.s3_key)
               THEN /\ s3' = S3PutPart(r.upload_id, pn, body)
                    /\ reqs' = [reqs EXCEPT ![i].etag = ETag(body),
                                            ![i].pc = "rpush"]
               ELSE /\ s3' = S3RejectPart(r.upload_id, pn, body)
                    /\ reqs' = [reqs EXCEPT ![i] = Finish(@, "error_500")]
  /\ UNCHANGED <<now, redis_upload, redis_parts, stream_vars, ttl_vars, upload_vars, concurrent>>

\* rpush parts:{upload_id} the part_info of this chunk.
HRpush(i) ==
  /\ reqs[i].pc = "rpush"
  /\ redis_parts' = RedisRPush(reqs[i].upload_id,
                      [PartNumber |-> ChunkPartNumber(reqs[i].chunk_number),
                       ETag |-> reqs[i].etag])
  /\ parts_expiry' = IF Expired(parts_expiry, reqs[i].upload_id)
                       THEN RedisDelete(parts_expiry, reqs[i].upload_id)
                       ELSE parts_expiry
  /\ reqs' = [reqs EXCEPT ![i].pc = "expire"]
  /\ UNCHANGED <<now, faults, s3, redis_upload, upload_expiry, stream_vars,
                 upload_vars, concurrent>>

\* expire parts:{upload_id}, then the branch on the last chunk.  The call
\* names the part list only; it does nothing when that key is absent.
HExpire(i) ==
  /\ reqs[i].pc = "expire"
  /\ parts_expiry' = IF RedisLRange(reqs[i].upload_id) # <<>>
                       THEN (reqs[i].upload_id :> ExpiryFrom(SESSION_TTL)) @@ parts_expiry
                       ELSE parts_expiry
  /\ IF IsLastChunk(reqs[i].chunk_number, reqs[i].total_chunks)
       THEN reqs' = [reqs EXCEPT ![i].pc = "lrange"]
       ELSE reqs' = [reqs EXCEPT ![i] = Finish(@, "chunk_uploaded")]
  /\ UNCHANGED <<now, faults, ext_vars, upload_expiry, stream_vars, upload_vars,
                 concurrent>>

\* lrange parts:{upload_id} 0 -1.
HLrange(i) ==
  /\ reqs[i].pc = "lrange"
  /\ reqs' = [reqs EXCEPT ![i].parts = RedisLRange(reqs[i].upload_id),
                          ![i].pc = "complete"]
  /\ UNCHANGED <<now, faults, ext_vars, stream_vars, ttl_vars, upload_vars, concurrent>>

\* complete_multipart_upload with the parts sorted by PartNumber.
HComplete(i) ==
  /\ reqs[i].pc = "complete"
  /\ LET r == reqs[i]
         parts == SortedParts(r.parts)
     IN \E ok \in BOOLEAN :
          /\ Outcome(ok)
          /\ IF ok /\ CompleteAccepted(r.upload_id, r.s3_key, parts)
               THEN /\ s3' = S3Complete(r.upload_id, parts)
                    /\ reqs' = [reqs EXCEPT ![i].pc = "del_upload"]
               ELSE /\ s3' = S3RejectComplete(r.upload_id, parts)
                    /\ reqs' = [reqs EXCEPT ![i] = Finish(@, "error_500")]
  /\ UNCHANGED <<now, redis_upload, redis_parts, stream_vars, ttl_vars, upload_vars, concurrent>>

\* delete upload:{user_id}:{file.filename}.
HDelUpload(i) ==
  /\ reqs[i].pc = "del_upload"
  /\ redis_upload' = RedisDelete(redis_upload, UploadKey(reqs[i]))
  /\ upload_expiry' = RedisDelete(upload_expiry, UploadKey(reqs[i]))
  /\ reqs' = [reqs EXCEPT ![i].pc = "del_parts"]
  /\ UNCHANGED <<now, faults, s3, redis_parts, parts_expiry, stream_vars,
                 upload_vars, concurrent>>

\* delete parts:{upload_id}, then return status completed with the URL.
HDelParts(i) ==
  /\ reqs[i].pc = "del_parts"
  /\ redis_parts' = RedisDelete(redis_parts, reqs[i].upload_id)
  /\ parts_expiry' = RedisDelete(parts_expiry, reqs[i].upload_id)
  /\ reqs' = [reqs EXCEPT ![i] = Finish(@, "completed")]
  /\ UNCHANGED <<now, faults, s3, redis_upload, upload_expiry, stream_vars,
                 upload_vars, concurrent>>

NextChunk ==
  \/ Arrive
  \/ \E i \in DOMAIN reqs : HCreate(i)
  \/ \E i \in DOMAIN reqs : HSetex(i)
  \/ \E i \in DOMAIN reqs : HGet(i)
  \/ \E i \in DOMAIN reqs : HUploadPart(i)
  \/ \E i \in DOMAIN reqs : HRpush(i)
  \/ \E i \in DOMAIN reqs : HExpire(i)
  \/ \E i \in DOMAIN reqs : HLrange(i)
  \/ \E i \in DOMAIN reqs : HComplete(i)
  \/ \E i \in DOMAIN reqs : HDelUpload(i)
  \/ \E i \in DOMAIN reqs : HDelParts(i)
  \/ Tick

SpecChunk == Init /\ [][NextChunk]_vars

\* ------------------------------- upload_telegram_file, process_large_file
\* A size check that lets every size through.
TooLargeUnchecked(size) == FALSE

\* request.file_size and request.file_size > MAX_FILE_SIZE.
TooLarge(size) == size # NoSize /\ size > MAX_FILE_SIZE

\* A deferral threshold that includes the threshold itself.
IsLargeInclusive(size) == size # NoSize /\ size >= FIFTY_MB

\* request.file_size and request.file_size > 50 MiB.
IsLarge(size) == size # NoSize /\ size > FIFTY_MB

\* job_id = md5(user_id + "_" + file_id).
JobId(user_id, file_id) == <<"md5", user_id, file_id>>

\* A notification whose failed delivery raises into its caller.
NotifyRaises(delivered) == ~delivered

\* notify_telegram catches every exception of its post and only prints it.
NotifyPropagates(delivered) == FALSE

\* An except branch that leaves the status as it was.
StatusLeftProcessing == "processing"

\* The status the except branch of process_large_file writes.
FailedStatus == "failed"

Terminal == {"completed", "failed"}

\* The value stored under job:{job_id}, with the expiry its setex gives it.
JobRecord(status, s3_url, has_error) ==
  [status |-> status, s3_url |-> s3_url, has_error |-> has_error,
   expiry |-> ExpiryFrom(JOB_TTL)]

NewRequest(user_id, file_name, file_id, file_size) ==
  [user_id |-> user_id, file_name |-> file_name, file_id |-> file_id,
   file_size |-> file_size, pc |-> "pending", task |-> FALSE,
   called |-> FALSE, outcome |-> "none", upload_id |-> NoUpload,
   s3_url |-> NoUrl, writes |-> <<>>, notes |-> <<>>,
   response |-> "pending", response_job |-> NoJob, response_url |-> NoUrl]

\* A request arrives and passes the two size checks: 413, or add_task for the
\* deferred transfer, or the synchronous transfer.
UArrive ==
  /\ Len(ureqs) < MaxUploadRequests
  /\ \E u \in Users, f \in Files, fid \in FileIds, size \in FileSizes :
       LET r == NewRequest(u, f, fid, size)
       IN ureqs' = Append(ureqs,
                     IF TooLarge(size)
                       THEN [r EXCEPT !.pc = "done", !.response = "error_413"]
                     ELSE IF IsLarge(size)
                       THEN [r EXCEPT !.pc = "setex_job", !.task = TRUE]
                     ELSE [r EXCEPT !.pc = "sync_call"])
  /\ UNCHANGED <<now, faults, ext_vars, stream_vars, chunk_vars, ttl_vars,
                 redis_job, s_owner>>

\* setex job:{job_id} with status processing, then the response; the
\* background task starts after the response.
USetexJob(i) ==
  /\ ureqs[i].pc = "setex_job"
  /\ LET job_id == JobId(ureqs[i].user_id, ureqs[i].file_id)
     IN /\ redis_job' = (job_id :> JobRecord("processing", NoUrl, FALSE)) @@ redis_job
        /\ ureqs' = [ureqs EXCEPT ![i].writes = Append(@, "processing"),
                                  ![i].response = "processing",
                                  ![i].response_job = job_id,
                                  ![i].pc = "notify_start"]
  /\ UNCHANGED <<now, faults, ext_vars, stream_vars, chunk_vars, ttl_vars, s_owner>>

\* Where process_large_file goes on after a notification.
AfterNotify(pc, delivered) ==
  IF pc = "notify_start"
    THEN IF NotifyPropagates(delivered) THEN "setex_failed" ELSE "call"
  ELSE IF pc = "notify_completed"
    THEN IF NotifyPropagates(delivered) THEN "setex_failed" ELSE "done"
  ELSE "done"

\* The notifications so far whose post failed.
Undelivered ==
  {n \in {<<i, k>> : i \in DOMAIN ureqs, k \in 1..3} :
     /\ n[2] \in DOMAIN ureqs[n[1]].notes
     /\ ~ureqs[n[1]].notes[n[2]].delivered}

\* notify_telegram: the message is delivered or the post fails.
UNotify(i) ==
  /\ ureqs[i].pc \in {"notify_start", "notify_completed", "notify_failed"}
  /\ \E delivered \in BOOLEAN :
       /\ ~delivered => Cardinality(Undelivered) < MaxUndelivered
       /\ ureqs' = [ureqs EXCEPT
                     ![i].notes = Append(@, [kind |-> ureqs[i].pc,
                                             delivered |-> delivered]),
                     ![i].pc = AfterNotify(ureqs[i].pc, delivered)]
  /\ UNCHANGED <<now, faults, ext_vars, stream_vars, chunk_vars, ttl_vars,
                 redis_job, s_owner>>

\* s3_url = await stream_telegram_to_s3(request).
UCall(i) ==
  /\ ureqs[i].pc \in {"call", "sync_call"}
  /\ s_owner = NoOwner
  /\ s_pc = "idle"
  /\ s_owner' = i
  /\ s_pc' = "get_file"
  /\ ureqs' = [ureqs EXCEPT ![i].called = TRUE, ![i].pc = "streaming"]
  /\ UNCHANGED <<now, faults, ext_vars, s_key, s_upload_id, s_parts,
                 s_part_number, s_buffer, s_source, s_pos, s_exact, s_result,
                 chunk_vars, ttl_vars, redis_job>>

\* The response of the synchronous path: completed with the URL, or 500.
SyncResponse(r, returned, url) ==
  [r EXCEPT !.pc = "done",
            !.response = IF returned THEN "completed" ELSE "error_500",
            !.response_url = IF returned THEN url ELSE NoUrl]

\* stream_telegram_to_s3 returns or raises into its caller; its locals go.
UReturn(i) ==
  /\ s_owner = i
  /\ s_pc \in {"returned", "raised"}
  /\ LET returned == s_pc = "returned"
         r == [ureqs[i] EXCEPT !.outcome = s_pc,
                               !.upload_id = s_upload_id,
                               !.s3_url = IF returned THEN s_result ELSE NoUrl]
     IN ureqs' = [ureqs EXCEPT ![i] =
                    IF r.task
                      THEN [r EXCEPT !.pc = IF returned THEN "setex_completed"
                                                        ELSE "setex_failed"]
                      ELSE SyncResponse(r, returned, s_result)]
  /\ s_owner' = NoOwner
  /\ s_pc' = "idle"
  /\ s_key' = NoKey
  /\ s_upload_id' = NoUpload
  /\ s_parts' = <<>>
  /\ s_part_number' = 1
  /\ s_buffer' = <<>>
  /\ s_source' = <<>>
  /\ s_pos' = 0
  /\ s_exact' = FALSE
  /\ s_result' = NoUrl
  /\ UNCHANGED <<now, faults, ext_vars, chunk_vars, ttl_vars, redis_job>>

\* setex job:{job_id} with status completed and the URL, or in the except
\* branch with status failed and the error.
USetexTerminal(i) ==
  /\ ureqs[i].pc \in {"setex_completed", "setex_failed"}
  /\ LET job_id == JobId(ureqs[i].user_id, ureqs[i].file_id)
         ok == ureqs[i].pc = "setex_completed"
         status == IF ok THEN "completed" ELSE FailedStatus
     IN /\ redis_job' = (job_id :> JobRecord(status, ureqs[i].s3_url, ~ok)) @@ redis_job
        /\ ureqs' = [ureqs EXCEPT ![i].writes = Append(@, status),
                                  ![i].pc = IF ok THEN "notify_completed"
                                                  ELSE "notify_failed"]
  /\ UNCHANGED <<now, faults, ext_vars, stream_vars, chunk_vars, ttl_vars, s_owner>>

\* A step of a request handler or of a background task.
TaskStep ==
  \/ \E i \in DOMAIN ureqs : USetexJob(i)
  \/ \E i \in DOMAIN ureqs : UNotify(i)
  \/ \E i \in DOMAIN ureqs : UCall(i)
  \/ \E i \in DOMAIN ureqs : UReturn(i)
  \/ \E i \in DOMAIN ureqs : USetexTerminal(i)
  \/ GetFile
  \/ CreateUpload
  \/ OpenStream
  \/ ReadChunk
  \/ CheckFlush
  \/ FinalFlush
  \/ CompleteUpload

\* The clock stands still here: these handlers read it for the object key and
\* the expiry times only, and branch on neither.
NextUpload ==
  \/ UArrive
  \/ TaskStep

SpecUpload == Init /\ [][NextUpload]_vars

\* The event loop runs every task that can take a step, and every call to the
\* source, the store and the state store returns or raises.
SpecUploadFair == Init /\ [][NextUpload]_vars /\ WF_vars(TaskStep)

\* ------------------------------------------------- streaming mode: claims
IsPartCall(c) == c.op = "upload_part"
IsCompleteCall(c) == c.op = "complete"
IsAbortCall(c) == c.op = "abort"

CallsOf(id) == IF id \in 1..Len(s3) THEN s3[id].Calls ELSE <<>>
PartCalls(id) == SelectSeq(CallsOf(id), IsPartCall)
CompleteCalls(id) == SelectSeq(CallsOf(id), IsCompleteCall)
AbortCalls(id) == SelectSeq(CallsOf(id), IsAbortCall)

RECURSIVE Flatten(_)
Flatten(seqs) == IF seqs = <<>> THEN <<>> ELSE Head(seqs) \o Flatten(Tail(seqs))

RECURSIVE SumLen(_)
SumLen(seqs) == IF seqs = <<>> THEN 0 ELSE Len(Head(seqs)) + SumLen(Tail(seqs))

\* The bodies handed to upload_part by the transfer, in emission order.
Emitted == [i \in 1..Len(PartCalls(s_upload_id)) |-> PartCalls(s_upload_id)[i].Body]

StreamFailedAfterCreate == s_pc = "raised" /\ s_upload_id # NoUpload

\* C1: whenever the streaming transfer has raised after its multipart upload
\* was created, abort-multipart-upload has been called for that upload_id.
C1_AbortBeforeErrorSurfaces ==
  StreamFailedAfterCreate => Len(AbortCalls(s_upload_id)) >= 1

\* C2: once the source stream is exhausted and the remainder flushed, the
\* emitted parts have lengths summing to the stream length, every part but
\* the last reaches the minimum part size, no part is empty, and their
\* concatenation in emission order is the source; while the loop runs, the
\* emitted parts followed by the buffer are exactly the bytes read so far.
C2_PartsReproduceSource ==
  /\ s_pc \in {"loop", "check"} =>
       Flatten(Emitted) \o s_buffer = SubSeq(s_source, 1, s_pos)
  /\ s_pc \in {"complete", "returned"} =>
       /\ SumLen(Emitted) = Len(s_source)
       /\ Flatten(Emitted) = s_source
       /\ \A i \in 1..Len(Emitted) : Emitted[i] # <<>>
       /\ \A i \in 1..(Len(Emitted) - 1) : Len(Emitted[i]) >= MIN_PART_SIZE

\* A finished transfer with several parts, one of them larger than the
\* minimum part size and a short last part.
C2_Witness ==
  /\ s_pc = "returned"
  /\ Len(Emitted) >= 2
  /\ \E i \in 1..Len(Emitted) : Len(Emitted[i]) > MIN_PART_SIZE
  /\ Len(Emitted[Len(Emitted)]) < MIN_PART_SIZE

\* C3: the upload_part calls of the transfer carry the part numbers 1, 2, 3,
\* ... in call order; a returned transfer has made exactly one complete call,
\* after its last upload_part, listing exactly those parts in that order, and
\* returns the URL of the key used at create; a 200 MiB stream read in full
\* 1 MiB chunks makes exactly 40 upload_part calls.
C3_PartNumbersAndComplete ==
  /\ \A i \in 1..Len(PartCalls(s_upload_id)) :
       PartCalls(s_upload_id)[i].PartNumber = i
  /\ Len(CompleteCalls(s_upload_id)) <= 1
  /\ s_pc = "returned" =>
       LET calls == CallsOf(s_upload_id)
           n == Len(PartCalls(s_upload_id))
       IN /\ Len(calls) = n + 1
          /\ \A i \in 1..n : IsPartCall(calls[i]) /\ calls[i].ok
          /\ IsCompleteCall(calls[n + 1])
          /\ calls[n + 1].Parts =
               [i \in 1..n |-> PartInfo(i, calls[i].Body)]
          /\ s_result = FinalUrl(s3[s_upload_id].Key)
          /\ (Len(s_source) = ScenarioLen /\ s_exact) => n = 40

\* The 200 MiB transfer has returned after 40 parts.
C3_Witness ==
  /\ s_pc = "returned"
  /\ Len(s_source) = ScenarioLen
  /\ s_exact
  /\ Len(PartCalls(s_upload_id)) = 40
  /\ s_result.key.timestamp = 0
  /\ now = 1

\* A complete call of upload id that the store rejected.
CompleteRejected(id) ==
  \E i \in 1..Len(CallsOf(id)) :
    IsCompleteCall(CallsOf(id)[i]) /\ ~CallsOf(id)[i].ok

\* No transfer and no request is under way.
Quiescent ==
  /\ s_pc \in {"idle", "raised", "returned"}
  /\ \A i \in DOMAIN reqs : reqs[i].pc = "done"

\* C4: once the transfer or request whose complete call the store rejected has
\* ended, abort-multipart-upload has been called exactly once for that
\* upload_id.
C4_RejectedCompleteAborts ==
  Quiescent =>
    \A id \in 1..Len(s3) : CompleteRejected(id) => Len(AbortCalls(id)) = 1

\* ------------------------------------- client-submitted-chunk mode: claims
ChunkKeyOf(id) == <<s3[id].Key.user, s3[id].Key.file_name>>

\* The multipart uploads of one (owner, file name) that are neither completed
\* nor aborted.
LiveUploads(key) ==
  {id \in 1..Len(s3) :
     /\ s3[id].Key.prefix = "chunks"
     /\ ChunkKeyOf(id) = key
     /\ s3[id].State = "open"}

\* C5: while the session key of an (owner, file name) is stored, at most one
\* multipart upload of that (owner, file name) is live, already when the
\* requests are made one after the other and no call to the store fails.
C5_OneLiveUploadPerKey ==
  (~concurrent /\ faults = 0) =>
    \A key \in DOMAIN redis_upload : Cardinality(LiveUploads(key)) <= 1

\* The requests made are chunks 0..n-1 of n, in order, one after the other,
\* all of them answered, and no call to the store has failed on its own.
InOrderRun(n) ==
  /\ ~concurrent
  /\ faults = 0
  /\ Len(reqs) = n
  /\ \A i \in 1..n :
       /\ reqs[i].chunk_number = i - 1
       /\ reqs[i].total_chunks = n
       /\ reqs[i].pc = "done"

\* C6: after chunks 0..n-1 of n were submitted in order, one multipart upload
\* was created, upload_part was called once per chunk with part number
\* chunk_number + 1, complete was called once with the parts 1..n, and neither
\* the session key nor the parts key is left in the state store.
C6_InOrderRunCompletes ==
  \A n \in 1..MaxTotalChunks :
    InOrderRun(n) =>
      /\ Len(s3) = 1
      /\ Len(PartCalls(1)) = n
      /\ \A i \in 1..n : PartCalls(1)[i].PartNumber = i
      /\ Len(CompleteCalls(1)) = 1
      /\ \A i \in 1..n : CompleteCalls(1)[1].Parts[i].PartNumber = i
      /\ Len(CompleteCalls(1)[1].Parts) = n
      /\ reqs[n].result = "completed"
      /\ UploadKey(reqs[1]) \notin DOMAIN redis_upload
      /\ 1 \notin DOMAIN redis_parts

\* The part number of request i is not the number of parts recorded for its
\* session plus one.
OutOfOrder(i) ==
  ChunkPartNumber(reqs[i].chunk_number) # Len(RedisLRange(reqs[i].upload_id)) + 1

\* C7: a part submission whose part number is out of order fails: the step
\* that submits it ends the request with an error, stores no part and leaves
\* the recorded part list as it is (already for requests made one after the
\* other when no call to the store fails).
C7_OutOfOrderPartRejected ==
  [][\A i \in DOMAIN reqs :
       (/\ ~concurrent
        /\ faults = 0
        /\ reqs[i].pc = "upload_part"
        /\ reqs'[i].pc # "upload_part"
        /\ OutOfOrder(i))
         => /\ reqs'[i].result \in {"error_400", "error_500"}
            /\ s3'[reqs[i].upload_id].Parts = s3[reqs[i].upload_id].Parts
            /\ redis_parts' = redis_parts]_vars

\* C8: the part numbers recorded for a live session are 1, 2, ..., k in that
\* order (already for requests made one after the other when no call to the
\* store fails).
C8_RecordedPartsGapless ==
  (~concurrent /\ faults = 0) =>
    \A key \in DOMAIN redis_upload :
      LET recorded == RedisLRange(redis_upload[key])
      IN \A k \in 1..Len(recorded) : recorded[k].PartNumber = k

\* C9: complete-multipart-upload is invoked at most once for an upload id,
\* already when no call to the store fails on its own.
C9_CompleteAtMostOnce ==
  faults = 0 => \A id \in 1..Len(s3) : Len(CompleteCalls(id)) <= 1

\* Request j carries a chunk that the session of request i has accepted.
DuplicateOf(j, i) ==
  \E k \in DOMAIN reqs :
    /\ reqs[k].upload_id = reqs[i].upload_id
    /\ reqs[k].result \in {"chunk_uploaded", "completed"}
    /\ reqs[k].user_id = reqs[j].user_id
    /\ reqs[k].file_name = reqs[j].file_name
    /\ reqs[k].chunk_number = reqs[j].chunk_number
    /\ reqs[k].total_chunks = reqs[j].total_chunks

\* C10: once a session has completed and cleared its keys, and every other
\* request made is a duplicate of a chunk of that session, neither the session
\* key nor the parts key exists and no duplicate has uploaded a part outside
\* the session (already for requests made one after the other).
C10_LateDuplicateHarmless ==
  \A i \in DOMAIN reqs :
    (/\ ~concurrent
     /\ reqs[i].result = "completed"
     /\ \A j \in DOMAIN reqs : DuplicateOf(j, i))
      => /\ UploadKey(reqs[i]) \notin DOMAIN redis_upload
         /\ reqs[i].upload_id \notin DOMAIN redis_parts
         /\ \A j \in DOMAIN reqs :
              reqs[j].upload_id # reqs[i].upload_id => reqs[j].etag = NoETag

\* ------------------------------------------------- second group of claims
\* C14: no complete-multipart-upload call, in streaming mode (a zero-byte
\* source included) or in client-submitted-chunk mode, passes an empty part
\* list.
C14_CompleteNeverEmpty ==
  \A id \in 1..Len(s3) :
    \A k \in 1..Len(CompleteCalls(id)) : CompleteCalls(id)[k].Parts # <<>>

\* The request of chunk i has made its upload_part call.
PartCallMade(i) ==
  /\ reqs[i].upload_id # NoUpload
  /\ reqs[i].pc \notin {"setex", "upload_part"}

\* C16: every accepted part of a later chunk renews the TTL of the session
\* key together with that of the part list: when the handler renews the part
\* list, the session key's remaining TTL is the full session TTL again.
C16_SessionKeyTtlRenewed ==
  [][\A i \in DOMAIN reqs :
       (/\ faults = 0
        /\ ~concurrent
        /\ reqs[i].chunk_number > 0
        /\ reqs[i].pc = "expire"
        /\ reqs'[i].pc # "expire")
       => (/\ UploadKey(reqs[i]) \in DOMAIN upload_expiry'
           /\ upload_expiry'[UploadKey(reqs[i])] - now' = SESSION_TTL)]_vars

\* C17: the streaming buffer always holds fewer than minimum part size plus
\* one read chunk, whatever the stream length; it is below the minimum part
\* size whenever the next read is about to be appended, and it is empty
\* right after each flush of the loop.
C17_BufferBounded ==
  /\ [](/\ Len(s_buffer) < MIN_PART_SIZE + CHUNK_SIZE
        /\ s_pc = "loop" => Len(s_buffer) < MIN_PART_SIZE)
  /\ [][(s_pc = "check" /\ s_pc' = "loop" /\ Len(s_parts') > Len(s_parts))
          => s_buffer' = <<>>]_vars

\* The buffer at its largest, one byte short of the bound, in a transfer that
\* has flushed before.
C17_Witness ==
  /\ s_pc = "check"
  /\ s_parts # <<>>
  /\ Len(s_buffer) = MIN_PART_SIZE + CHUNK_SIZE - 1

\* C18: the request of every chunk that has made its upload_part call, and so
\* the complete call and the returned URL, uses the object key that was
\* passed to create-multipart-upload for its upload id, also when the
\* requests arrive in different seconds.
C18_ChunkKeyConsistent ==
  \A i \in DOMAIN reqs :
    (faults = 0 /\ ~concurrent /\ PartCallMade(i) /\ reqs[i].upload_id \in 1..Len(s3))
      => reqs[i].s3_key = s3[reqs[i].upload_id].Key

\* ------------------------------------------- upload requests: claims
JobIds == {JobId(u, fid) : u \in Users, fid \in FileIds}

JobStatus(j) == IF j \in DOMAIN redis_job THEN redis_job[j].status ELSE "none"

\* file_size lies above the 50 MiB threshold and not above MAX_FILE_SIZE.
InDeferredRange(size) == size > FIFTY_MB /\ size <= MAX_FILE_SIZE

\* C11: a request whose file_size exceeds MAX_FILE_SIZE is answered 413 at
\* once: it registers no background task, calls neither the source nor the
\* object store, creates no multipart upload, writes no JobRecord and sends
\* no notification.
C11_OversizeRejectedFirst ==
  \A i \in DOMAIN ureqs :
    ureqs[i].file_size > MAX_FILE_SIZE =>
      /\ ureqs[i].response = "error_413"
      /\ ureqs[i].pc = "done"
      /\ ~ureqs[i].task
      /\ ~ureqs[i].called
      /\ s_owner # i
      /\ ureqs[i].upload_id = NoUpload
      /\ ureqs[i].writes = <<>>
      /\ ureqs[i].notes = <<>>

\* A request one unit above the maximum was rejected, next to one of exactly
\* the maximum that was accepted and deferred.
C11_Witness ==
  /\ \E i \in DOMAIN ureqs :
       ureqs[i].file_size = MAX_FILE_SIZE + 1 /\ ureqs[i].response = "error_413"
  /\ \E i \in DOMAIN ureqs :
       ureqs[i].file_size = MAX_FILE_SIZE /\ ureqs[i].response = "processing"

\* C12: a deferred transfer that has run to its end has written a terminal
\* JobRecord: failed, with the error, followed by the failure notification
\* when the transfer raised, and completed, with the URL, when it returned;
\* and every JobRecord in status processing eventually becomes terminal.
C12_DeferredEndsTerminal ==
  /\ [](\A i \in DOMAIN ureqs :
          (ureqs[i].task /\ ureqs[i].pc = "done") =>
            /\ Len(ureqs[i].writes) = 2
            /\ ureqs[i].outcome = "returned" => ureqs[i].writes[2] = "completed"
            /\ ureqs[i].outcome # "returned" =>
                 /\ ureqs[i].writes[2] = "failed"
                 /\ ureqs[i].notes[Len(ureqs[i].notes)].kind = "notify_failed")
  /\ [](\A j \in DOMAIN redis_job :
          /\ redis_job[j].status = "completed" =>
               redis_job[j].s3_url # NoUrl /\ ~redis_job[j].has_error
          /\ redis_job[j].status = "failed" => redis_job[j].has_error)
  /\ \A j \in JobIds : (JobStatus(j) = "processing") ~> (JobStatus(j) \in Terminal)

\* A deferred transfer that raised and left its JobRecord failed.
C12_Witness ==
  \E i \in DOMAIN ureqs :
    /\ ureqs[i].task
    /\ ureqs[i].pc = "done"
    /\ ureqs[i].outcome = "raised"
    /\ JobStatus(JobId(ureqs[i].user_id, ureqs[i].file_id)) = "failed"

C15_SmallFileBypassesMultipart ==
  \A i \in DOMAIN ureqs :
    (/\ ureqs[i].file_size # NoSize
     /\ ureqs[i].file_size < FIFTY_MB
     /\ ureqs[i].response = "completed")
      => ureqs[i].upload_id = NoUpload

\* C19: a request is deferred exactly when its file_size is above 50 MiB and
\* not above MAX_FILE_SIZE.  A deferred request writes the JobRecord with
\* status processing and answers processing with the job_id before its
\* transfer is invoked.  A request of unknown or smaller size writes no
\* JobRecord and answers, after the whole transfer, completed with the URL of
\* the completed upload or an error, never a job_id.
C19_DeferredIffLarge ==
  \A i \in DOMAIN ureqs :
    LET r == ureqs[i]
    IN /\ r.task <=> InDeferredRange(r.file_size)
       /\ r.task =>
            /\ r.called => r.response = "processing"
            /\ r.response \in {"pending", "processing"}
            /\ r.response = "processing" =>
                 /\ r.response_job = JobId(r.user_id, r.file_id)
                 /\ r.writes # <<>> /\ r.writes[1] = "processing"
                 /\ r.response_url = NoUrl
       /\ (~r.task /\ r.file_size <= MAX_FILE_SIZE) =>
            /\ r.writes = <<>>
            /\ r.response_job = NoJob
            /\ r.response \in {"pending", "completed", "error_500"}
            /\ r.response = "completed" =>
                 /\ r.outcome = "returned"
                 /\ s3[r.upload_id].State = "completed"
                 /\ r.response_url = FinalUrl(s3[r.upload_id].Key)
            /\ r.response = "error_500" => r.outcome = "raised"

\* Requests at both sides of the threshold: exactly 50 MiB answered completed
\* and one unit more answered processing, and one of unknown size answered.
C19_Witness ==
  /\ \E i \in DOMAIN ureqs :
       ureqs[i].file_size = FIFTY_MB /\ ureqs[i].response = "completed"
  /\ \E i \in DOMAIN ureqs :
       ureqs[i].file_size = FIFTY_MB + 1 /\ ureqs[i].response = "processing"

\* C20: the status of a JobRecord only moves forward: once it is completed or
\* failed it keeps that status, also when the upload request is repeated for
\* the same owner and file_id.
C20_JobStatusOnlyForward ==
  [][\A j \in DOMAIN redis_job :
       (faults = 0 /\ redis_job[j].status \in Terminal)
         => JobStatus(j)' = redis_job[j].status]_vars

====
